---- MODULE Spec2Model ----
(***************************************************************************)
(* vrc_volta: the poll loop of src/main.rs.  Every 60 seconds the program  *)
(* reads two adb dumps, extracts the headset and the two controller        *)
(* battery readings, normalises them and sends three OSC messages over     *)
(* UDP.  Text is modelled character by character: a string is a sequence   *)
(* of one-character strings, a dump is the sequence of its lines.          *)
(***************************************************************************)
EXTENDS Integers, Sequences, FiniteSets, TLC

(* ---------------------------------------------------------------------- *)
(* Bounds of the model                                                     *)
(* ---------------------------------------------------------------------- *)
MaxBatteryLines == 2

MaxControllerLines == 5

(* ---------------------------------------------------------------------- *)
(* Program constants                                                       *)
(* ---------------------------------------------------------------------- *)
LEVEL_KEY == <<" ", " ", "l", "e", "v", "e", "l", ":", " ">>

HANDLER_KEY == <<" ", " ", " ", "h", "a", "n", "d", "l", "e", "r", ":", " ">>

BATTERY_KEY == <<" ", " ", " ", "b", "a", "t", "t", "e", "r", "y", ":", " ">>

U8_MAX == 255

HEADSET_SCALE == 100

CONTROLLER_SCALE == 5

ADDR_HEADSET == "/avatar/parameters/BatteryLevelHeadset"

ADDR_CONTROLLER_LEFT == "/avatar/parameters/BatteryLevelControllerLeft"

ADDR_CONTROLLER_RIGHT == "/avatar/parameters/BatteryLevelControllerRight"

(* The context messages get_levels attaches to its errors.                 *)
ERR_HEADSET_NOT_FOUND == "Failed to find headset battery level"

ERR_HEADSET_PARSE == "Failed to detach the important thing"

ERR_LEFT_CAPTURE == "Failed to capture left controller battery level"

ERR_LEFT_PARSE == "Failed to parse left controller battery level"

ERR_RIGHT_CAPTURE == "Failed to capture right controller battery level"

ERR_RIGHT_PARSE == "Failed to parse right controller battery level"

(* The messages of the expect() calls that panic.                          *)
PANIC_BATTERY_DUMP ==
  {"Failed to get headset battery",
   "Failed to convert headset battery output to a string"}

PANIC_CONTROLLER_DUMP ==
  {"Failed to get controller batteries",
   "Failed to convert controller batteries output to a string"}

PANIC_ENCODE ==
  <<"Failed to encode headset battery level message",
    "Failed to encode left controller battery level message",
    "Failed to encode right controller battery level message">>

PANIC_SEND ==
  <<"Failed to send headset battery level",
    "Failed to send left controller battery level",
    "Failed to send right controller battery level">>

(* ---------------------------------------------------------------------- *)
(* Strings                                                                 *)
(* ---------------------------------------------------------------------- *)
Digits == {"0", "1", "2", "3", "4", "5", "6", "7", "8", "9"}

DigitValue ==
  ("0" :> 0) @@ ("1" :> 1) @@ ("2" :> 2) @@ ("3" :> 3) @@ ("4" :> 4) @@
  ("5" :> 5) @@ ("6" :> 6) @@ ("7" :> 7) @@ ("8" :> 8) @@ ("9" :> 9)

(* pat occurs in s at position i *)
MatchAt(s, pat, i) ==
  /\ i >= 1
  /\ i + Len(pat) - 1 <= Len(s)
  /\ \A k \in 1..Len(pat) : s[i + k - 1] = pat[k]

(* str::starts_with *)
starts_with(s, pat) == MatchAt(s, pat, 1)

RECURSIVE FindFrom(_, _, _)
(* the least position >= i at which pat occurs in s, 0 when there is none *)
FindFrom(s, pat, i) ==
  IF i + Len(pat) - 1 > Len(s) THEN 0
  ELSE IF MatchAt(s, pat, i) THEN i
  ELSE FindFrom(s, pat, i + 1)

RECURSIVE ReplaceFrom(_, _, _)
ReplaceFrom(s, pat, i) ==
  IF i > Len(s) THEN <<>>
  ELSE IF MatchAt(s, pat, i) THEN ReplaceFrom(s, pat, i + Len(pat))
  ELSE <<s[i]>> \o ReplaceFrom(s, pat, i + 1)

(* str::replace(pat, ""): every non-overlapping occurrence of pat, found   *)
(* left to right, is removed.                                              *)
replace(s, pat) == ReplaceFrom(s, pat, 1)

RECURSIVE ParseDigits(_, _, _)
(* checked accumulation of decimal digits into a u8; -1 is the Err result  *)
ParseDigits(s, i, acc) ==
  IF i > Len(s) THEN acc
  ELSE IF s[i] \notin Digits THEN -1
  ELSE IF acc * 10 + DigitValue[s[i]] > U8_MAX THEN -1
  ELSE ParseDigits(s, i + 1, acc * 10 + DigitValue[s[i]])

(* str::parse::<u8>(): an optional leading "+", then one or more digits,   *)
(* value at most 255; -1 is the Err result.                                *)
parse(s) ==
  IF Len(s) = 0 THEN -1
  ELSE IF s[1] = "+" THEN (IF Len(s) = 1 THEN -1 ELSE ParseDigits(s, 2, 0))
  ELSE ParseDigits(s, 1, 0)

RECURSIVE DigitRunEnd(_, _)
(* the position after the longest run of digits of s that starts at i *)
DigitRunEnd(s, i) ==
  IF i <= Len(s) /\ s[i] \in Digits THEN DigitRunEnd(s, i + 1) ELSE i

SeqsUpTo(S, n) == UNION {[1..k -> S] : k \in 0..n}

(* ---------------------------------------------------------------------- *)
(* Inputs: the dumps adb can return                                        *)
(* ---------------------------------------------------------------------- *)
BatteryLines ==
  { LEVEL_KEY \o <<"7", "3">>,
    LEVEL_KEY \o <<"1", "5", "0">>,
    LEVEL_KEY \o <<"3", "0", "0">>,
    LEVEL_KEY \o <<"7">> \o LEVEL_KEY \o <<"3">>,
    LEVEL_KEY \o <<"x">>,
    <<"l", "e", "v", "e", "l", ":", " ", "9">> }

BatteryDumps == SeqsUpTo(BatteryLines, MaxBatteryLines)

HANDLER_LEFT_LINE == HANDLER_KEY \o <<"l", "e", "f", "t">>

HANDLER_RIGHT_LINE == HANDLER_KEY \o <<"r", "i", "g", "h", "t">>

ControllerLines ==
  { HANDLER_LEFT_LINE,
    HANDLER_RIGHT_LINE,
    BATTERY_KEY \o <<"4">>,
    BATTERY_KEY \o <<"5">>,
    BATTERY_KEY \o <<"3", "0", "0">>,
    <<" ", " ", "m", "a", "c", ":", " ", "0">> }

ControllerDumps == SeqsUpTo(ControllerLines, MaxControllerLines)

(* ---------------------------------------------------------------------- *)
(* get_levels                                                              *)
(* ---------------------------------------------------------------------- *)
RECURSIVE FindLine(_, _, _)
(* Iterator::find over lines(): the index of the first line of dump, from  *)
(* i on, that starts with key; 0 when there is none.                       *)
FindLine(dump, key, i) ==
  IF i > Len(dump) THEN 0
  ELSE IF starts_with(dump[i], key) THEN i
  ELSE FindLine(dump, key, i + 1)

Ok(v) == [ok |-> TRUE, value |-> v, err |-> ""]

Err(e) == [ok |-> FALSE, value |-> 0, err |-> e]

(* The headset statement of get_levels: find, replace, parse.              *)
HeadsetLevel(dump) ==
  LET i == FindLine(dump, LEVEL_KEY, 1) IN
  IF i = 0 THEN Err(ERR_HEADSET_NOT_FOUND)
  ELSE LET v == parse(replace(dump[i], LEVEL_KEY)) IN
       IF v < 0 THEN Err(ERR_HEADSET_PARSE) ELSE Ok(v)

RECURSIVE Intersperse(_, _)
(* filter + intersperse("\n") + collect, from line i on: the lines that    *)
(* start with HANDLER_KEY or BATTERY_KEY, joined by newlines.              *)
Intersperse(dump, i) ==
  IF i > Len(dump) THEN <<>>
  ELSE IF starts_with(dump[i], HANDLER_KEY) \/ starts_with(dump[i], BATTERY_KEY)
       THEN LET rest == Intersperse(dump, i + 1) IN
            IF rest = <<>> THEN dump[i] ELSE dump[i] \o <<"\n">> \o rest
       ELSE Intersperse(dump, i + 1)

Controllers(dump) == Intersperse(dump, 1)

RECURSIVE FindLastFrom(_, _, _, _)
(* the greatest position in i..j at which pat occurs in s, 0 when none *)
FindLastFrom(s, pat, i, j) ==
  IF j < i THEN 0
  ELSE IF MatchAt(s, pat, j) THEN j
  ELSE FindLastFrom(s, pat, i, j - 1)

(* Mutant of RegexCaptures: the gap is matched greedily ([.\s\S]* for the  *)
(* lazy [.\s\S]*?), so the last "battery: " of the text is taken.          *)
RegexCapturesGreedy(side, text) ==
  LET head == <<"h", "a", "n", "d", "l", "e", "r", ":", " ">> \o side
      batt == <<"b", "a", "t", "t", "e", "r", "y", ":", " ">>
      h    == FindFrom(text, head, 1)
      b    == IF h = 0 THEN 0
              ELSE FindLastFrom(text, batt, h + Len(head), Len(text))
  IN IF b = 0 THEN [matched |-> FALSE, group1 |-> <<>>]
     ELSE [matched |-> TRUE,
           group1 |-> SubSeq(text, b + Len(batt),
                             DigitRunEnd(text, b + Len(batt)) - 1)]

\* The first match in text of the pattern
\*     handler: <side>[.\s\S]*?battery: ([0-9]*)
\* the leftmost "handler: <side>", then (lazily) the nearest "battery: "
\* after it, then (greedily) the digits that follow, which may be none.
RegexCaptures(side, text) ==
  LET head == <<"h", "a", "n", "d", "l", "e", "r", ":", " ">> \o side
      batt == <<"b", "a", "t", "t", "e", "r", "y", ":", " ">>
      h    == FindFrom(text, head, 1)
      b    == IF h = 0 THEN 0 ELSE FindFrom(text, batt, h + Len(head))
  IN IF b = 0 THEN [matched |-> FALSE, group1 |-> <<>>]
     ELSE [matched |-> TRUE,
           group1 |-> SubSeq(text, b + Len(batt),
                             DigitRunEnd(text, b + Len(batt)) - 1)]

REGEX_CONTROLLER_LEFT(text) == RegexCaptures(<<"l", "e", "f", "t">>, text)

REGEX_CONTROLLER_RIGHT(text) == RegexCaptures(<<"r", "i", "g", "h", "t">>, text)

(* One side's statement of get_levels: captures_iter().next(), [1], parse. *)
ControllerLevel(captures, errCapture, errParse) ==
  IF ~captures.matched THEN Err(errCapture)
  ELSE LET v == parse(captures.group1) IN
       IF v < 0 THEN Err(errParse) ELSE Ok(v)

LeftControllerLevel(text) ==
  ControllerLevel(REGEX_CONTROLLER_LEFT(text), ERR_LEFT_CAPTURE, ERR_LEFT_PARSE)

(* Mutant of RightControllerLevel: the left side's error contexts. *)
RightControllerLevelLeftContext(text) ==
  ControllerLevel(REGEX_CONTROLLER_RIGHT(text), ERR_LEFT_CAPTURE, ERR_LEFT_PARSE)

RightControllerLevel(text) ==
  ControllerLevel(REGEX_CONTROLLER_RIGHT(text), ERR_RIGHT_CAPTURE, ERR_RIGHT_PARSE)

(* n as f32 / d: the quotient, kept as the pair it is computed from.       *)
F32Div(n, d) == [num |-> n, den |-> d]

NoFloat == F32Div(0, 1)

NoLevels ==
  [tag |-> "None", err |-> "",
   headset |-> NoFloat, left_controller |-> NoFloat, right_controller |-> NoFloat]

LevelsErr(e) == [NoLevels EXCEPT !.tag = "Err", !.err = e]

(* Mutant of BatteryLevels: the readings are clamped to their scale. *)
BatteryLevelsClamped(h, l, r) ==
  [tag |-> "Ok", err |-> "",
   headset |-> F32Div(IF h > HEADSET_SCALE THEN HEADSET_SCALE ELSE h, HEADSET_SCALE),
   left_controller |->
     F32Div(IF l > CONTROLLER_SCALE THEN CONTROLLER_SCALE ELSE l, CONTROLLER_SCALE),
   right_controller |->
     F32Div(IF r > CONTROLLER_SCALE THEN CONTROLLER_SCALE ELSE r, CONTROLLER_SCALE)]

(* Ok(BatteryLevels { .. }) *)
BatteryLevels(h, l, r) ==
  [tag |-> "Ok", err |-> "",
   headset |-> F32Div(h, HEADSET_SCALE),
   left_controller |-> F32Div(l, CONTROLLER_SCALE),
   right_controller |-> F32Div(r, CONTROLLER_SCALE)]

(* The controller part of get_levels, given the headset reading: left is   *)
(* extracted first and `?` returns at the first error.                     *)
ControllerLevels(h, dump) ==
  LET text == Controllers(dump)
      l    == LeftControllerLevel(text)
  IN IF ~l.ok THEN LevelsErr(l.err)
     ELSE LET r == RightControllerLevel(text) IN
          IF ~r.ok THEN LevelsErr(r.err)
          ELSE BatteryLevels(h, l.value, r.value)

(* ---------------------------------------------------------------------- *)
(* Outbound messages                                                       *)
(* ---------------------------------------------------------------------- *)
OscMessage(addr, arg) == [addr |-> addr, args |-> <<arg>>]

(* the three packets main builds, in the order it builds them *)
Packets(lv) ==
  << OscMessage(ADDR_HEADSET, lv.headset),
     OscMessage(ADDR_CONTROLLER_LEFT, lv.left_controller),
     OscMessage(ADDR_CONTROLLER_RIGHT, lv.right_controller) >>

(* encoder::encode: the OSC datagram, address, type tags, arguments *)
Encode(msg) == <<msg.addr, ",f", msg.args>>

(* ---------------------------------------------------------------------- *)
(* State                                                                   *)
(* ---------------------------------------------------------------------- *)
VARIABLES
  pc,               \* where main is
  batteryDump,      \* the battery dump of this cycle
  headset,          \* get_levels' local `headset`
  controllersDump,  \* the controller-service dump of this cycle
  levels,           \* what get_levels returned
  buffers,          \* the datagrams encoded in this cycle
  sent,             \* the datagrams sent in this cycle
  log,              \* what this cycle logged: "", "info" or "error"
  panic,            \* the message of the panic that ended the process
  battery_dumps,    \* calls of get_battery_dump in this cycle
  controller_dumps  \* calls of get_controller_service_dump in this cycle

vars ==
  <<pc, batteryDump, headset, controllersDump, levels, buffers, sent, log,
    panic, battery_dumps, controller_dumps>>

NoHeadset == Err("")

Init ==
  /\ pc = "get_levels"
  /\ batteryDump = <<>>
  /\ headset = NoHeadset
  /\ controllersDump = <<>>
  /\ levels = NoLevels
  /\ buffers = <<>>
  /\ sent = <<>>
  /\ log = ""
  /\ panic = ""
  /\ battery_dumps = 0
  /\ controller_dumps = 0

(* get_battery_dump panics: adb cannot be spawned, or stdout is not UTF-8. *)
GetBatteryDumpPanic ==
  /\ pc = "get_levels"
  /\ \E m \in PANIC_BATTERY_DUMP : panic' = m
  /\ battery_dumps' = battery_dumps + 1
  /\ pc' = "panicked"
  /\ UNCHANGED <<batteryDump, headset, controllersDump, levels, buffers, sent,
                 log, controller_dumps>>

(* get_levels, first statement: get_battery_dump, find, replace, parse.     *)
GetLevelsHeadset ==
  /\ pc = "get_levels"
  /\ batteryDump' \in BatteryDumps
  /\ headset' = HeadsetLevel(batteryDump')
  /\ battery_dumps' = battery_dumps + 1
  /\ pc' = "headset?"
  /\ UNCHANGED <<controllersDump, levels, buffers, sent, log, panic,
                 controller_dumps>>

(* `?` on an Ok headset: the statement ends, its temporaries are dropped.   *)
HeadsetOk ==
  /\ pc = "headset?"
  /\ headset.ok
  /\ batteryDump' = <<>>
  /\ pc' = "controllers"
  /\ UNCHANGED <<headset, controllersDump, levels, buffers, sent, log, panic,
                 battery_dumps, controller_dumps>>

(* Mutant of HeadsetErr: the headset error is not returned, get_levels     *)
(* goes on to the controllers.                                             *)
HeadsetErrIgnored ==
  /\ pc = "headset?"
  /\ ~headset.ok
  /\ batteryDump' = <<>>
  /\ pc' = "controllers"
  /\ UNCHANGED <<headset, controllersDump, levels, buffers, sent, log, panic,
                 battery_dumps, controller_dumps>>

(* `?` on an Err headset: get_levels returns the error.                     *)
HeadsetErr ==
  /\ pc = "headset?"
  /\ ~headset.ok
  /\ levels' = LevelsErr(headset.err)
  /\ batteryDump' = <<>>
  /\ pc' = "if_let"
  /\ UNCHANGED <<headset, controllersDump, buffers, sent, log, panic,
                 battery_dumps, controller_dumps>>

(* get_controller_service_dump panics. *)
GetControllerServiceDumpPanic ==
  /\ pc = "controllers"
  /\ \E m \in PANIC_CONTROLLER_DUMP : panic' = m
  /\ controller_dumps' = controller_dumps + 1
  /\ pc' = "panicked"
  /\ UNCHANGED <<batteryDump, headset, controllersDump, levels, buffers, sent,
                 log, battery_dumps>>

(* get_levels, the rest: the controller dump and the two controller levels *)
GetLevelsControllers ==
  /\ pc = "controllers"
  /\ controllersDump' \in ControllerDumps
  /\ levels' = ControllerLevels(headset.value, controllersDump')
  /\ controller_dumps' = controller_dumps + 1
  /\ pc' = "if_let"
  /\ UNCHANGED <<batteryDump, headset, buffers, sent, log, panic,
                 battery_dumps>>

(* if let Ok(levels) = get_levels() { info!(..); build the packets *)
IfLetOk ==
  /\ pc = "if_let"
  /\ levels.tag = "Ok"
  /\ log' = "info"
  /\ pc' = "encode"
  /\ headset' = NoHeadset
  /\ controllersDump' = <<>>
  /\ UNCHANGED <<batteryDump, levels, buffers, sent, panic, battery_dumps,
                 controller_dumps>>

(* Mutant of IfLetErr: get_levels().unwrap(), which panics on an Err. *)
IfLetErrUnwrap ==
  /\ pc = "if_let"
  /\ levels.tag = "Err"
  /\ panic' = levels.err
  /\ pc' = "panicked"
  /\ UNCHANGED <<batteryDump, headset, controllersDump, levels, buffers, sent,
                 log, battery_dumps, controller_dumps>>

(* } else { error!("Failed to retrieve battery levels") } *)
IfLetErr ==
  /\ pc = "if_let"
  /\ levels.tag = "Err"
  /\ log' = "error"
  /\ pc' = "sleep"
  /\ headset' = NoHeadset
  /\ controllersDump' = <<>>
  /\ UNCHANGED <<batteryDump, levels, buffers, sent, panic, battery_dumps,
                 controller_dumps>>

(* encoder::encode(..).expect(..) succeeds for the next packet *)
EncodeOk ==
  /\ pc = "encode"
  /\ buffers' = Append(buffers, Encode(Packets(levels)[Len(buffers) + 1]))
  /\ pc' = IF Len(buffers) + 1 = 3 THEN "send_to" ELSE "encode"
  /\ UNCHANGED <<batteryDump, headset, controllersDump, levels, sent, log,
                 panic, battery_dumps, controller_dumps>>

(* encoder::encode(..) fails: expect panics *)
EncodePanic ==
  /\ pc = "encode"
  /\ panic' = PANIC_ENCODE[Len(buffers) + 1]
  /\ pc' = "panicked"
  /\ UNCHANGED <<batteryDump, headset, controllersDump, levels, buffers, sent,
                 log, battery_dumps, controller_dumps>>

(* Mutant of SendToOk: the loop goes to its sleep after the second send. *)
SendToOkTwoOnly ==
  /\ pc = "send_to"
  /\ sent' = Append(sent, buffers[Len(sent) + 1])
  /\ pc' = IF Len(sent) + 1 = 2 THEN "sleep" ELSE "send_to"
  /\ UNCHANGED <<batteryDump, headset, controllersDump, levels, buffers, log,
                 panic, battery_dumps, controller_dumps>>

(* socket.send_to(..).expect(..) succeeds for the next buffer *)
SendToOk ==
  /\ pc = "send_to"
  /\ sent' = Append(sent, buffers[Len(sent) + 1])
  /\ pc' = IF Len(sent) + 1 = 3 THEN "sleep" ELSE "send_to"
  /\ UNCHANGED <<batteryDump, headset, controllersDump, levels, buffers, log,
                 panic, battery_dumps, controller_dumps>>

(* Mutant of SendToPanic: the send error is logged and the cycle goes on   *)
(* to its sleep.                                                           *)
SendToErrLogged ==
  /\ pc = "send_to"
  /\ panic' = PANIC_SEND[Len(sent) + 1]
  /\ log' = "error"
  /\ pc' = "sleep"
  /\ UNCHANGED <<batteryDump, headset, controllersDump, levels, buffers, sent,
                 battery_dumps, controller_dumps>>

(* socket.send_to(..) fails: expect panics *)
SendToPanic ==
  /\ pc = "send_to"
  /\ panic' = PANIC_SEND[Len(sent) + 1]
  /\ pc' = "panicked"
  /\ UNCHANGED <<batteryDump, headset, controllersDump, levels, buffers, sent,
                 log, battery_dumps, controller_dumps>>

(* Mutant of Sleep: the loop is left after the sleep. *)
SleepThenBreak ==
  /\ pc = "sleep"
  /\ pc' = "returned"
  /\ UNCHANGED <<batteryDump, headset, controllersDump, levels, buffers, sent,
                 log, panic, battery_dumps, controller_dumps>>

(* thread::sleep(sleep_duration), then the next iteration of the loop,     *)
(* which starts with nothing of this one.                                  *)
Sleep ==
  /\ pc = "sleep"
  /\ pc' = "get_levels"
  /\ levels' = NoLevels
  /\ buffers' = <<>>
  /\ sent' = <<>>
  /\ log' = ""
  /\ battery_dumps' = 0
  /\ controller_dumps' = 0
  /\ UNCHANGED <<batteryDump, headset, controllersDump, panic>>

Next ==
  \/ GetBatteryDumpPanic
  \/ GetLevelsHeadset
  \/ HeadsetOk
  \/ HeadsetErr
  \/ GetControllerServiceDumpPanic
  \/ GetLevelsControllers
  \/ IfLetOk
  \/ IfLetErr
  \/ EncodeOk
  \/ EncodePanic
  \/ SendToOk
  \/ SendToPanic
  \/ Sleep

Spec == Init /\ [][Next]_vars

(* What the thread does when nothing fails: the step of the place it is   *)
(* at.  The guards of these steps exclude one another.                     *)
Proceed ==
  \/ GetLevelsHeadset
  \/ HeadsetOk
  \/ HeadsetErr
  \/ GetLevelsControllers
  \/ IfLetOk
  \/ IfLetErr
  \/ EncodeOk
  \/ SendToOk
  \/ Sleep

(* The thread keeps running: it does not stay for ever at a place whose    *)
(* step it can take.  The failures of adb, of the encoder and of the       *)
(* socket are the environment's: they may happen and are never forced.     *)
FairSpec == Spec /\ WF_vars(Proceed)

(* ---------------------------------------------------------------------- *)
(* Vocabulary of the claims, stated on the lines of a dump                 *)
(* ---------------------------------------------------------------------- *)
Range(f) == {f[i] : i \in DOMAIN f}

(* the text of a line after its first n characters *)
After(line, n) == SubSeq(line, n + 1, Len(line))

AllDigits(t) == Len(t) > 0 /\ \A k \in 1..Len(t) : t[k] \in Digits

RECURSIVE DecimalValue(_)
(* the number a string of digits denotes *)
DecimalValue(t) ==
  IF Len(t) = 0 THEN 0
  ELSE 10 * DecimalValue(SubSeq(t, 1, Len(t) - 1)) + DigitValue[t[Len(t)]]

IsLevelLine(line) == Len(line) >= 9 /\ SubSeq(line, 1, 9) = LEVEL_KEY

IsHandlerLine(line) == Len(line) >= 12 /\ SubSeq(line, 1, 12) = HANDLER_KEY

IsBatteryLine(line) == Len(line) >= 12 /\ SubSeq(line, 1, 12) = BATTERY_KEY

(* a line  "   battery: <digits>" *)
IsBatteryDigitsLine(line) == IsBatteryLine(line) /\ AllDigits(After(line, 12))

Least(S) == CHOOSE i \in S : \A j \in S : i <= j

(* the handler line at i is followed, before the next handler line, by a   *)
(* battery line at j                                                       *)
OwnBattery(dump, i, j) ==
  /\ j \in (i + 1)..Len(dump)
  /\ IsBatteryDigitsLine(dump[j])
  /\ \A k \in (i + 1)..(j - 1) : ~IsHandlerLine(dump[k])

(* the dump has a block of the side whose handler line is given *)
HasBlock(dump, handlerLine) ==
  \E i \in 1..Len(dump) :
    dump[i] = handlerLine /\ \E j \in 1..Len(dump) : OwnBattery(dump, i, j)

HasLine(dump, line) == \E i \in 1..Len(dump) : dump[i] = line

(* the digits of the first battery line after the first handler line of a  *)
(* side, as a number; -1 when there is no such line                        *)
FirstBatteryAfterFirst(dump, handlerLine) ==
  LET H == {i \in 1..Len(dump) : dump[i] = handlerLine} IN
  IF H = {} THEN -1
  ELSE LET B == {j \in (Least(H) + 1)..Len(dump) : IsBatteryLine(dump[j])} IN
       IF B = {} THEN -1 ELSE DecimalValue(After(dump[Least(B)], 12))

LevelExtractorErrors ==
  {ERR_HEADSET_NOT_FOUND, ERR_HEADSET_PARSE, ERR_LEFT_CAPTURE, ERR_LEFT_PARSE,
   ERR_RIGHT_CAPTURE, ERR_RIGHT_PARSE}

DumpSourcePanics == PANIC_BATTERY_DUMP \cup PANIC_CONTROLLER_DUMP

PublishPanics == Range(PANIC_ENCODE) \cup Range(PANIC_SEND)

C2_NoPartialPublishingAnywhere ==
  pc \in {"sleep", "panicked"} => Len(sent) \in {0, 3}

(* C2, amended: a cycle that reaches its sleep has sent 0 or 3 messages,   *)
(* and nothing is sent before extraction and all three encodings have      *)
(* succeeded; a cycle has sent 1 or 2 messages only while it is sending or *)
(* when a send failure has ended the process.                              *)
C2_NoPartialPublishingInCompletedCycle ==
  /\ pc = "sleep" => Len(sent) \in {0, 3}
  /\ Len(sent) <= 3
  /\ sent # <<>> => (levels.tag = "Ok" /\ Len(buffers) = 3)
  /\ Len(sent) \in {1, 2} =>
       \/ pc = "send_to"
       \/ pc = "panicked" /\ panic = PANIC_SEND[Len(sent) + 1]

C2_Witness == pc = "sleep" /\ Len(sent) = 3

(* ---------------------------------------------------------------------- *)
(* C3                                                                      *)
(* ---------------------------------------------------------------------- *)
(* C3, as claimed: there is no terminal state, a further poll cycle always *)
(* begins eventually.                                                      *)
C3_AlwaysAnotherCycle == []<>(pc = "get_levels")

(* C3, amended: the only terminal state is the panic.  After every cycle   *)
(* that ends without one, published or failed, the process sleeps and then *)
(* starts another cycle; so from every reachable state either a further    *)
(* cycle begins or the process has panicked.                               *)
C3_AnotherCycleUnlessPanicked ==
  /\ (pc = "sleep") ~> (pc = "get_levels")
  /\ []<>(pc = "get_levels" \/ pc = "panicked")

C3_Witness == pc = "sleep" /\ levels.tag = "Err" /\ log = "error"

(* ---------------------------------------------------------------------- *)
(* C4                                                                      *)
(* ---------------------------------------------------------------------- *)
(* C4: the headset result is decided by the first line that begins with    *)
(* "  level: ": the rest of that line when it is an integer in [0,255],    *)
(* ParseError when it is not, NotFound when no line begins with the prefix.*)
C4_HeadsetFromFirstLevelLine ==
  pc = "headset?" =>
    LET L == {i \in 1..Len(batteryDump) : IsLevelLine(batteryDump[i])} IN
    IF L = {} THEN headset = Err(ERR_HEADSET_NOT_FOUND)
    ELSE LET rest == After(batteryDump[Least(L)], 9) IN
         IF AllDigits(rest) /\ DecimalValue(rest) <= 255
         THEN headset = Ok(DecimalValue(rest))
         ELSE headset = Err(ERR_HEADSET_PARSE)

(* ---------------------------------------------------------------------- *)
(* C5                                                                      *)
(* ---------------------------------------------------------------------- *)
ControllersExtracted == pc = "if_let" /\ controller_dumps = 1

BothBlocks ==
  /\ HasBlock(controllersDump, HANDLER_LEFT_LINE)
  /\ HasBlock(controllersDump, HANDLER_RIGHT_LINE)

ExpectedLeft == FirstBatteryAfterFirst(controllersDump, HANDLER_LEFT_LINE)

ExpectedRight == FirstBatteryAfterFirst(controllersDump, HANDLER_RIGHT_LINE)

(* C5, as claimed: when both sides have a block, extraction returns for    *)
(* each side the digits of the first battery line after the first handler  *)
(* line of that side.                                                      *)
C5_FirstBatteryAfterFirstHandler ==
  (ControllersExtracted /\ BothBlocks) =>
    /\ levels.tag = "Ok"
    /\ levels.left_controller.num = ExpectedLeft
    /\ levels.right_controller.num = ExpectedRight

(* C5, amended: the same, provided the digits selected for each side       *)
(* denote a value of at most 255; when the left ones do not, extraction    *)
(* fails with the left ParseError, and when only the right ones do not,    *)
(* with the right ParseError.                                              *)
C5_FirstBatteryAfterFirstHandlerU8 ==
  (ControllersExtracted /\ BothBlocks) =>
    /\ (ExpectedLeft <= 255 /\ ExpectedRight <= 255) =>
         /\ levels.tag = "Ok"
         /\ levels.left_controller.num = ExpectedLeft
         /\ levels.right_controller.num = ExpectedRight
    /\ ExpectedLeft > 255 => levels = LevelsErr(ERR_LEFT_PARSE)
    /\ (ExpectedLeft <= 255 /\ ExpectedRight > 255) =>
         levels = LevelsErr(ERR_RIGHT_PARSE)

(* the dump of the specification's example: left, an unrelated line,       *)
(* battery 4, right, battery 5                                             *)
C5_Witness ==
  /\ ControllersExtracted
  /\ Len(controllersDump) = 5
  /\ controllersDump[1] = HANDLER_LEFT_LINE
  /\ ~IsHandlerLine(controllersDump[2]) /\ ~IsBatteryLine(controllersDump[2])
  /\ controllersDump[3] = BATTERY_KEY \o <<"4">>
  /\ controllersDump[4] = HANDLER_RIGHT_LINE
  /\ controllersDump[5] = BATTERY_KEY \o <<"5">>
  /\ levels.tag = "Ok"
  /\ levels.left_controller.num = 4
  /\ levels.right_controller.num = 5

(* ---------------------------------------------------------------------- *)
(* C6                                                                      *)
(* ---------------------------------------------------------------------- *)
(* C6: with a left block whose reading is extractable and no right handler *)
(* line, extraction fails with the right CaptureNotFound; with a right     *)
(* block and no left handler line, with the left CaptureNotFound; a cycle  *)
(* that fails so encodes and sends nothing and goes to its sleep.          *)
C6_MissingSideAbortsCycle ==
  /\ ( /\ ControllersExtracted
       /\ HasBlock(controllersDump, HANDLER_LEFT_LINE)
       /\ ExpectedLeft <= 255
       /\ ~HasLine(controllersDump, HANDLER_RIGHT_LINE) )
     => levels = LevelsErr(ERR_RIGHT_CAPTURE)
  /\ ( /\ ControllersExtracted
       /\ HasBlock(controllersDump, HANDLER_RIGHT_LINE)
       /\ ~HasLine(controllersDump, HANDLER_LEFT_LINE) )
     => levels = LevelsErr(ERR_LEFT_CAPTURE)
  /\ levels.err \in {ERR_LEFT_CAPTURE, ERR_RIGHT_CAPTURE} =>
       /\ pc \in {"if_let", "sleep"}
       /\ buffers = <<>> /\ sent = <<>>

C6_Witness ==
  /\ ControllersExtracted
  /\ HasBlock(controllersDump, HANDLER_LEFT_LINE)
  /\ ExpectedLeft = 4
  /\ ~HasLine(controllersDump, HANDLER_RIGHT_LINE)
  /\ levels.err = ERR_RIGHT_CAPTURE

(* ---------------------------------------------------------------------- *)
(* C7                                                                      *)
(* ---------------------------------------------------------------------- *)
ExpectedDatagrams ==
  << <<"/avatar/parameters/BatteryLevelHeadset", ",f", <<levels.headset>> >>,
     <<"/avatar/parameters/BatteryLevelControllerLeft", ",f",
       <<levels.left_controller>> >>,
     <<"/avatar/parameters/BatteryLevelControllerRight", ",f",
       <<levels.right_controller>> >> >>

(* C7: an extraction that succeeds with raw readings (h, l, r) yields the   *)
(* levels h/100, l/5, r/5, unclamped; the cycle sends the three messages in *)
(* the order headset, left, right, and has sent exactly these three when it *)
(* sleeps; a cycle one of whose dumps lacks its markers sends nothing.      *)
C7_ThreeMessagesOrNone ==
  /\ (pc = "if_let" /\ levels.tag = "Ok") =>
       /\ levels.headset = [num |-> headset.value, den |-> 100]
       /\ levels.left_controller = [num |-> ExpectedLeft, den |-> 5]
       /\ levels.right_controller = [num |-> ExpectedRight, den |-> 5]
  /\ levels.tag = "Ok" =>
       /\ Len(sent) <= 3
       /\ sent = SubSeq(ExpectedDatagrams, 1, Len(sent))
       /\ pc = "sleep" => sent = ExpectedDatagrams
  /\ (pc = "headset?" /\ \A i \in 1..Len(batteryDump) : ~IsLevelLine(batteryDump[i]))
       => ~headset.ok
  /\ ( /\ ControllersExtracted
       /\ \/ \A i \in 1..Len(controllersDump) : ~IsHandlerLine(controllersDump[i])
          \/ \A i \in 1..Len(controllersDump) : ~IsBatteryLine(controllersDump[i]) )
     => levels.tag = "Err"
  /\ levels.tag # "Ok" => sent = <<>>

(* a headset reading of 150 has been published as 150/100 = 1.5 *)
C7_Witness ==
  /\ pc = "sleep"
  /\ Len(sent) = 3
  /\ sent[1][3][1].num * 2 = sent[1][3][1].den * 3
  /\ sent[2][3][1].num = 4 /\ sent[2][3][1].den = 5
  /\ sent[3][3][1].num = 5 /\ sent[3][3][1].den = 5

(* ---------------------------------------------------------------------- *)
(* C8                                                                      *)
(* ---------------------------------------------------------------------- *)
(* C8: a failed encode or send of any of the three messages ends the       *)
(* process where it is: the cycle never reaches its sleep and no later     *)
(* cycle starts; a failed extraction by LevelExtractor ends no process.    *)
C8_EncodeAndSendFailuresFatal ==
  [][ /\ (pc \in {"encode", "send_to"} /\ Len(buffers') = Len(buffers)
            /\ Len(sent') = Len(sent)) => pc' = "panicked"
      /\ panic' \in PublishPanics => pc' = "panicked"
      /\ pc = "panicked" => pc' = "panicked"
      /\ levels'.tag = "Err" => pc' # "panicked"
    ]_vars

C8_Witness ==
  /\ pc = "panicked"
  /\ panic = "Failed to send left controller battery level"
  /\ Len(sent) = 1

(* ---------------------------------------------------------------------- *)
(* C9                                                                      *)
(* ---------------------------------------------------------------------- *)
(* C9: when controller extraction succeeds, the left reading is the value   *)
(* of a battery line that follows a left handler line before the next      *)
(* handler line, and the right reading likewise.                           *)
C9_NoCrossAttribution ==
  (ControllersExtracted /\ levels.tag = "Ok") =>
    /\ \E i, j \in 1..Len(controllersDump) :
         /\ controllersDump[i] = HANDLER_LEFT_LINE
         /\ OwnBattery(controllersDump, i, j)
         /\ DecimalValue(After(controllersDump[j], 12)) = levels.left_controller.num
    /\ \E i, j \in 1..Len(controllersDump) :
         /\ controllersDump[i] = HANDLER_RIGHT_LINE
         /\ OwnBattery(controllersDump, i, j)
         /\ DecimalValue(After(controllersDump[j], 12)) = levels.right_controller.num

(* ---------------------------------------------------------------------- *)
(* C10                                                                     *)
(* ---------------------------------------------------------------------- *)
(* C10: in a cycle the battery dump is fetched once and first, the         *)
(* controller dump at most once and only after the headset was extracted,  *)
(* never after a headset NotFound or ParseError, and nothing is sent       *)
(* before both extractions and the three encodings have succeeded.         *)
C10_OrderedNoRetry ==
  /\ battery_dumps = (IF pc = "get_levels" THEN 0 ELSE 1)
  /\ controller_dumps \in {0, 1}
  /\ pc \in {"get_levels", "headset?", "controllers"} => controller_dumps = 0
  /\ pc = "controllers" => headset.ok
  /\ levels.err \in {ERR_HEADSET_NOT_FOUND, ERR_HEADSET_PARSE} => controller_dumps = 0
  /\ levels.tag = "Ok" => controller_dumps = 1
  /\ buffers # <<>> => levels.tag = "Ok"
  /\ sent # <<>> => (levels.tag = "Ok" /\ Len(buffers) = 3 /\ controller_dumps = 1)

C10_Witness ==
  /\ pc = "sleep"
  /\ levels.err = ERR_HEADSET_PARSE
  /\ battery_dumps = 1
  /\ controller_dumps = 0

====
